---- MODULE Spec2Model ----
(***************************************************************************)
(* A model of the brumous particle system: the pool of particle slots, the *)
(* cursor scan that picks a slot to respawn, the per-frame update, the      *)
(* resize of the pool, the instance buffer with its queued writes, and the  *)
(* frame loop that draws and clears the buffer.                             *)
(*                                                                         *)
(* Units.  The code keeps lives and deltas in seconds as f32, obtained as   *)
(* whole milliseconds / 1000.  The model keeps them as whole milliseconds   *)
(* (one tick = 1 ms), so every comparison with 0.0 is the same comparison.  *)
(* A Duration is given in ticks of 1/UnitsPerMilli ms, so the truncation of *)
(* as_millis() is visible.  Pool indices are 0-based as in the code; the    *)
(* slot with index i is element i+1 of the sequence `particles`.            *)
(***************************************************************************)
EXTENDS Integers, Sequences, FiniteSets, TLC

(* ------------------------------ bounds --------------------------------- *)
MaxParticles == 3        \* largest pool capacity tried
MaxRate == 2             \* largest spawn rate tried
MaxDuration == 4         \* longest Duration of one update, in duration units
UnitsPerMilli == 2       \* duration units per millisecond
MaxSystemLife == 1       \* largest descriptor life, in ms
MaxExpired == 1          \* updates stop once the system life would fall below
                         \* -MaxExpired ms
MaxLifeMean == 2         \* largest mean of the particle life spread, in ms
MaxLifeVariance == 1     \* largest variance of the particle life spread
MaxPosition == 1         \* largest y a system is moved to by set_position
MaxMass == 2             \* largest particle mass set by set_mass_spread
MaxInitVel == 1          \* largest initial velocity set
MaxSpawnVariance == 1    \* largest variance of the spawn range set
MaxLights == 3           \* largest max_lights of a renderer
MaxLightValue == 2       \* distinct lights (position, colour) passed to
                         \* add_light
MaxArgs == 3             \* most command line arguments given to Config::new
MaxLines == 2            \* most lines of an obj file
MaxCoords == 3           \* most coordinates on a v / vt / vn line
MaxFields == 2           \* most '/'-terminated indices of a face entry
MaxIndex == 2            \* largest index written in a face entry
MaxTokenLen == 6         \* most characters of a face entry read char by char
MaxSystems == 6          \* most particle systems in the list of the GUI
MaxEntry == 1            \* largest entry of the one-entry matrices multiplied
MaxInstance == 15        \* largest instance index a vertex fetch is tried on
MaxSeed == 2             \* largest small seed given to Randf32::seed
MaxDraws == 3            \* most samples drawn from one generator
MaxRangeEnd == 2         \* in_range is tried on a..b within -MaxRangeEnd ..
                         \* MaxRangeEnd
MaxSpreadMean == 5       \* largest mean of a Spread sampled directly
MaxSpreadVariance == 2   \* largest variance of a Spread sampled directly

(* --------------------------- small helpers ----------------------------- *)
SetMin(S) == CHOOSE x \in S : \A y \in S : x <= y

Min(a, b) == IF a <= b THEN a ELSE b

(* ----------------------------- data types ------------------------------ *)
\* Spread::new(mean, variance)
Spread(mean, variance) == [mean |-> mean, variance |-> variance]

\* The values spread() can return for a Spread: mean + u * variance with u
\* drawn from in_range(-1.0..1.0); on the integer grid of the model that is
\* mean - variance .. mean + variance - 1, and mean alone when variance = 0.
SpreadValues(s) ==
    IF s.variance = 0 THEN {s.mean}
    ELSE (s.mean - s.variance) .. (s.mean + s.variance - 1)

\* impl Default for Particle: life 0.0, parked at y = -100, at rest.
\* Only the y components of pos and vel are kept (gravity acts on y only).
DefaultParticle == [life |-> 0, pos |-> -100, vel |-> 0, mass |-> 1]

\* The instance record of a particle (to_raw): the model matrix is
\* translation * rotation * scale, whose corner element m[3][3] is always 1,
\* so no particle, live, dead or default, maps to the all-zero record.
to_raw(p) == [w |-> 1, pos |-> p.pos]

\* The record clear_buffer leaves in every slot.
ZeroInstance == [w |-> 0, pos |-> 0]

\* Marks a slot for which no write is queued.
NoWrite == [w |-> -1, pos |-> 0]

\* A conversion that rounds a started millisecond up.
as_millis_ceil(dur) == (dur + UnitsPerMilli - 1) \div UnitsPerMilli

\* Duration::as_millis(): whole milliseconds, truncating.
as_millis(dur) == dur \div UnitsPerMilli

(* ------------------------------- state --------------------------------- *)
VARIABLES
    particles,      \* Vec<Particle>: the pool
    search_pos,     \* scan cursor of find_unused_particle
    rate,           \* particles spawned per update
    life,           \* remaining life of the system
    position,       \* y of the system's position
    gravity,        \* gravity of the system
    bounds,         \* ParticleSystemBounds: the spreads sampled at a spawn
    particle_buf,   \* contents of the instance buffer, one record per slot
    pending,        \* writes queued on the queue for particle_buf, not yet
                    \* submitted: per slot the last record written, or NoWrite
    panicked,       \* the thread has panicked (index out of bounds, overflow)
    cfg_max,        \* history: capacity last configured (desc.max or the
                    \* argument of set_max_particles)
    drawn,          \* history: what the last draw read from the buffer,
                    \* <<>> when the last operation issued no draw
    ev,             \* history: summary of the last operation
    rand,           \* Randf32: the generator's state and its last sample
    lights,         \* ParticleSystemRenderer: the lights buffer, max_lights
                    \* and the outcome of the last add_light
    config,         \* Config::new: the arguments, the parsing state and
                    \* the configuration built so far
    obj,            \* read_obj_file: the lines of the file, the lists read
                    \* so far and the outcome; or one entry of an f line and
                    \* the vertex read from it
    mat,            \* a pair of Mat4x4 and their product
    layout,         \* ParticleRaw::layout: the instance and attribute of the
                    \* last vertex fetch and the bytes it read
    gui             \* State::render_ui: the list of systems, the focused
                    \* index and the last action of the user

vars == <<particles, search_pos, rate, life, position, gravity, bounds,
          particle_buf, pending, panicked, cfg_max, drawn, ev,
          rand, lights, config, obj, mat, layout, gui>>

\* The variables of the components other than the particle system.
others == <<rand, lights, config, obj, mat, layout, gui>>

\* The variables of the particle system and of its frame loop.
sysvars == <<particles, search_pos, rate, life, position, gravity, bounds,
             particle_buf, pending, panicked, cfg_max, drawn, ev>>

\* A component that is not in use in the specification at hand.
Idle == [op |-> "idle"]

OthersIdle ==
    /\ rand = Idle
    /\ lights = Idle
    /\ config = Idle
    /\ obj = Idle
    /\ mat = Idle
    /\ layout = Idle
    /\ gui = Idle

sys == <<particles, search_pos, rate, life, position, gravity, bounds>>

\* Number of slots of the pool (particles.len()).
Len0 == Len(particles)

\* particle_count()
particle_count == Len(particles)

\* ParticleInstance::size(): size_of a #[repr(C)] record of f32 fields, the
\* 4x4 model matrix, the 3x3 normal matrix and the RGBA colour, 4 bytes each.
InstanceSize == 4 * (16 + 9 + 4)

\* Option<NonZeroU64>: NonZeroU64::new(n) is None for n = 0 and Some(n)
\* otherwise.
NonZeroU64_new(n) ==
    IF n = 0 THEN [some |-> FALSE, val |-> 0] ELSE [some |-> TRUE, val |-> n]

\* The number of bytes an Option<BufferSize> stands for where it is used
\* (clear_buffer(buf, 0, size)): None clears to the end of the buffer.
SizeBytes(size, buf_bytes) == IF size.some THEN size.val ELSE buf_bytes

\* particle_buf_size()
particle_buf_size == NonZeroU64_new(Len(particles) * InstanceSize)

\* The bytes create_buffer_init is given for a buffer of the records `buf`:
\* bytemuck::cast_slice of the Vec of records.
BufferBytes(buf) == Len(buf) * InstanceSize

\* A write offset that skips the slot's own record.
WriteOffsetNextSlot(index) == (index + 1) * InstanceSize

\* The offset of the write_buffer of update for the slot `index`:
\* `index as u64 * ParticleInstance::size()`.
WriteOffset(index) == index * InstanceSize

\* The bytes that write carries: cast_slice of one instance record.
WriteLen == InstanceSize

Alive(p) == p.life > 0

Dead(p) == p.life <= 0

LiveSet(ps) == {i \in 0 .. Len(ps) - 1 : Alive(ps[i + 1])}

LiveCount == Cardinality(LiveSet(particles))

\* The summary of an operation that is not an update.
NoEvent(op) ==
    [op |-> op, fresh |-> FALSE, life0 |-> 0, above |-> FALSE,
     delta |-> 0, idxs |-> <<>>, hitAlive |-> FALSE, born |-> {},
     died |-> {}, written |-> {}, old_len |-> 0]

(* --------------------------- construction ------------------------------ *)
\* The life spreads a descriptor or set_life_spread may carry.
LifeSpreads ==
    {Spread(m, v) : m \in 0 .. MaxLifeMean, v \in 0 .. MaxLifeVariance}

\* The spreads held fixed in this model: particles spawn at the system's
\* position (spawn_range variance 0), with initial velocity 1 and mass 1.
FixedBounds(ls) ==
    [life |-> ls, spawn_range |-> Spread(0, 0), init_vel |-> Spread(1, 0),
     mass |-> Spread(1, 0)]

\* ParticleSystem::new(device, desc): desc.max default particles, the cursor
\* at 0, the buffer created from the records of the pool.  The descriptor's
\* position is the origin and its gravity the even value -2.
Init ==
    \E max \in 0 .. MaxParticles, r \in 0 .. MaxRate,
       l \in 0 .. MaxSystemLife, ls \in LifeSpreads :
        /\ particles = [i \in 1 .. max |-> DefaultParticle]
        /\ search_pos = 0
        /\ rate = r
        /\ life = l
        /\ position = 0
        /\ gravity = -2
        /\ bounds = FixedBounds(ls)
        /\ particle_buf = [i \in 1 .. max |-> to_raw(DefaultParticle)]
        /\ pending = [i \in 1 .. max |-> NoWrite]
        /\ panicked = FALSE
        /\ cfg_max = max
        /\ drawn = <<>>
        /\ ev = NoEvent("new")
        /\ OthersIdle

(* ------------------------- slot allocation ----------------------------- *)
\* A test that also takes a slot whose life is exactly 0.
IsUnusedOrZero(p) == p.life <= 0

\* The test find_unused_particle applies to a slot: `life < 0.0`.
IsUnused(p) == p.life < 0

\* find_unused_particle: scan search_pos..len, then 0..search_pos, for the
\* first slot that IsUnused; fall back to index 0.  The second scan indexes
\* particles[i] for i < search_pos, which is out of bounds (a panic) once it
\* reaches len without a hit.
find_unused_particle(ps, sp) ==
    LET n == Len(ps)
        first == {i \in sp .. n - 1 : IsUnused(ps[i + 1])}
        second == {i \in 0 .. Min(sp, n) - 1 : IsUnused(ps[i + 1])}
    IN  IF first # {}
        THEN [idx |-> SetMin(first), search_pos |-> SetMin(first),
              panic |-> FALSE]
        ELSE IF second # {}
        THEN [idx |-> SetMin(second), search_pos |-> SetMin(second),
              panic |-> FALSE]
        ELSE IF sp > n
        THEN [idx |-> n, search_pos |-> sp, panic |-> TRUE]
        ELSE [idx |-> 0, search_pos |-> 0, panic |-> FALSE]

\* The particles new_particle can return under the bounds `b` for a system
\* at `at`: every attribute sampled independently from its spread.
NewParticles(b, at) ==
    {[life |-> l, pos |-> o + at, vel |-> v, mass |-> m] :
        l \in SpreadValues(b.life), o \in SpreadValues(b.spawn_range),
        v \in SpreadValues(b.init_vel), m \in SpreadValues(b.mass)}

\* The spawn loop of update, iterations k..Len(smp): each takes the slot
\* find_unused_particle returns and stores the k-th sampled particle there.
\* `idxs` lists the slots taken, `hitAlive` tells that a slot with life > 0
\* was overwritten.
RECURSIVE SpawnLoop(_, _, _)
SpawnLoop(st, k, smp) ==
    IF k > Len(smp) \/ st.panic THEN st
    ELSE LET f == find_unused_particle(st.particles, st.search_pos)
         IN  IF f.panic \/ f.idx >= Len(st.particles)
             THEN [st EXCEPT !.panic = TRUE]
             ELSE SpawnLoop(
                    [particles |-> [st.particles EXCEPT ![f.idx + 1] = smp[k]],
                     search_pos |-> f.search_pos,
                     panic |-> FALSE,
                     idxs |-> Append(st.idxs, f.idx),
                     hitAlive |-> st.hitAlive \/ Alive(st.particles[f.idx + 1])],
                    k + 1, smp)

(* ----------------------------- integration ----------------------------- *)
\* Particle::update: vel += gravity * mass * delta * 0.5; pos += vel * delta.
\* Gravity is kept even, so that the half step is exact on integers.
ParticleUpdate(p, delta, g) ==
    LET v == p.vel + (g * p.mass * delta) \div 2
    IN  [p EXCEPT !.vel = v, !.pos = p.pos + v * delta]

\* A loop body that integrates every particle, alive or not.
AgeAll(p, delta, g) ==
    ParticleUpdate([p EXCEPT !.life = p.life - delta], delta, g)

\* A loop body that tests the life before it is decremented.
AgeTestFirst(p, delta, g) ==
    LET q == [p EXCEPT !.life = p.life - delta]
    IN  IF p.life > 0 THEN ParticleUpdate(q, delta, g) ELSE q

\* The body of the loop over the pool in update: the life of the particle
\* falls by delta, and only a particle still alive is integrated.
Age(p, delta, g) ==
    LET q == [p EXCEPT !.life = p.life - delta]
    IN  IF q.life > 0 THEN ParticleUpdate(q, delta, g) ELSE q

\* The slots whose instance record update writes: those alive after ageing.
WrittenSlots(aged) == {i \in 0 .. Len(aged) - 1 : aged[i + 1].life > 0}

\* usize::MAX, the value `len - 1` wraps to when len = 0 and overflow checks
\* are off; narrowed to the integers of the checker, it is only compared
\* with pool lengths.
UsizeMax == 2^30 + (2^30 - 1)

\* An update that spawns whatever the life of the system.
SpawningAlways(l) == TRUE

\* Whether update spawns: the test `self.life >= 0.0`.
Spawning(l) == l >= 0

\* A spawn loop that runs once too often.
SpawnCountOffByOne(r) == r + 1

\* How many times the spawn loop runs: `0..self.rate`.
SpawnCount(r) == r

\* Everything update(dur) computes from the current state, given the
\* particles `smp` that new_particle samples in the spawn loop.
UpdateResult(dur, smp) ==
    LET delta == as_millis(dur)
        st0 == [particles |-> particles, search_pos |-> search_pos,
                panic |-> FALSE, idxs |-> <<>>, hitAlive |-> FALSE]
        st == IF Spawning(life) THEN SpawnLoop(st0, 1, smp) ELSE st0
        n == Len(st.particles)
        aged == [i \in 1 .. n |-> Age(st.particles[i], delta, gravity)]
        written == WrittenSlots(aged)
    IN  [particles |-> aged,
         search_pos |-> st.search_pos,
         life |-> life - delta,
         delta |-> delta,
         written |-> written,
         pending |-> [i \in 1 .. Len(particle_buf) |->
                        IF i - 1 \in written THEN to_raw(aged[i])
                        ELSE pending[i]],
         panic |-> st.panic
                    \/ \E i \in written :
                        WriteOffset(i) + WriteLen > BufferBytes(particle_buf),
         underflow |-> st.search_pos > n /\ n = 0,
         clamped |-> IF st.search_pos > n /\ n > 0 THEN n - 1
                     ELSE st.search_pos,
         idxs |-> st.idxs,
         hitAlive |-> st.hitAlive]

\* The summary of an update that ran to its end.
UpdateEvent(op, r, smp) ==
    [op |-> op,
     fresh |-> ev.op = "new",
     life0 |-> life,
     above |-> \A k \in 1 .. Len(smp) : smp[k].life > r.delta,
     delta |-> r.delta,
     idxs |-> r.idxs,
     hitAlive |-> r.hitAlive,
     born |-> {i \in 0 .. Len(particles) - 1 :
                 Dead(particles[i + 1]) /\ Alive(r.particles[i + 1])},
     died |-> {i \in 0 .. Len(particles) - 1 :
                 Alive(particles[i + 1]) /\ Dead(r.particles[i + 1])},
     written |-> r.written,
     old_len |-> Len(particles)]

\* The thread panics: nothing more happens to the system.
Panic ==
    /\ panicked' = TRUE
    /\ ev' = NoEvent("panic")
    /\ drawn' = <<>>
    /\ UNCHANGED <<sys, particle_buf, pending, cfg_max, others>>

\* The sampled particles of one update: one per iteration of the spawn loop.
SpawnSamples == [1 .. SpawnCount(rate) -> NewParticles(bounds, position)]

\* The fields of the system update leaves, as computed in r; `sp` is the
\* cursor it leaves.
UpdateEffect(r, sp) ==
    /\ particles' = r.particles
    /\ life' = r.life
    /\ search_pos' = sp
    /\ UNCHANGED <<rate, position, gravity, bounds, cfg_max, panicked, others>>

\* queue.write_buffer for every slot in r.written: the writes stay queued
\* until the next submit.
QueueWrites(r) ==
    /\ pending' = r.pending
    /\ drawn' = <<>>
    /\ UNCHANGED particle_buf

\* The buffer a submit leaves before its commands run: the queued writes
\* `pend` are applied to `buf` first.
Flushed(buf, pend) ==
    [i \in 1 .. Len(buf) |-> IF pend[i] = NoWrite THEN buf[i] ELSE pend[i]]

\* clear_buffer(particle_buf, 0, particle_buf_size()): every slot zeroed.
Cleared(buf) == [i \in 1 .. Len(buf) |-> ZeroInstance]

\* State::render: one encoder holding the draw of all particle_count
\* instances and then the clear of the buffer, submitted after the queued
\* writes `pend`.
RenderBuffer(pend) ==
    /\ drawn' = Flushed(particle_buf, pend)
    /\ particle_buf' = Cleared(particle_buf)
    /\ pending' = [i \in 1 .. Len(particle_buf) |-> NoWrite]

\* update run on the current state with duration dur and samples smp.  An
\* index out of bounds in the spawn loop panics, and so does a write_buffer
\* past the end of the buffer (r.panic).  The cursor clamp `len - 1`
\* underflows when len = 0: a build with overflow checks panics, one without
\* wraps to usize::MAX.  `rendered` tells whether the caller goes on to
\* render the frame; the operation is recorded as op.
UpdateOutcome(op, r, smp, rendered) ==
    \/ /\ r.panic
       /\ Panic
    \/ /\ ~r.panic /\ r.underflow
       /\ Panic
    \/ /\ ~r.panic
       /\ UpdateEffect(r, IF r.underflow THEN UsizeMax ELSE r.clamped)
       /\ IF rendered THEN RenderBuffer(r.pending) ELSE QueueWrites(r)
       /\ ev' = UpdateEvent(op, r, smp)

UpdateStep(op, dur, smp, rendered) ==
    LET r == UpdateResult(dur, smp)
    IN  /\ r.life + MaxExpired >= 0
        /\ UpdateOutcome(op, r, smp, rendered)

\* ParticleSystem::update(delta, queue), called on its own.
update ==
    /\ ~panicked
    /\ \E dur \in 0 .. MaxDuration, smp \in SpawnSamples :
        UpdateStep("update", dur, smp, FALSE)

\* update called with a duration of less than 1 ms.
update_short ==
    /\ ~panicked
    /\ \E dur \in 0 .. UnitsPerMilli - 1, smp \in SpawnSamples :
        UpdateStep("short", dur, smp, FALSE)

\* A life below -MaxExpired ms is kept as -MaxExpired ms: the code only
\* ever compares a life with 0, so the two are told apart by no test.
Saturated(l) == IF l < -MaxExpired THEN -MaxExpired ELSE l

\* update called with a duration of at least 1 ms, on and on: the lives keep
\* falling after the system has expired, kept Saturated.
update_ms ==
    /\ ~panicked
    /\ \E dur \in UnitsPerMilli .. MaxDuration, smp \in SpawnSamples :
        \E r \in {UpdateResult(dur, smp)} :
            \E sat \in {[r EXCEPT
                           !.life = Saturated(r.life),
                           !.particles =
                              [i \in 1 .. Len(r.particles) |->
                                 [r.particles[i] EXCEPT
                                    !.life =
                                       Saturated(r.particles[i].life)]]]} :
                UpdateOutcome("update", sat, smp, FALSE)

(* ------------------------------- resize -------------------------------- *)
\* A resize that pads but never truncates.
ResizedGrowOnly(ps, max) ==
    IF max <= Len(ps) THEN ps
    ELSE [i \in 1 .. max |-> IF i <= Len(ps) THEN ps[i] ELSE DefaultParticle]

\* Vec::resize(max, Particle::default()): truncate, or pad with defaults.
Resized(ps, max) ==
    [i \in 1 .. max |-> IF i <= Len(ps) THEN ps[i] ELSE DefaultParticle]

\* A resize that keeps the buffer it has.
set_max_particles_keep_buf ==
    /\ ~panicked
    /\ \E max \in 0 .. MaxParticles :
        /\ particles' = Resized(particles, max)
        /\ cfg_max' = max
        /\ drawn' = <<>>
        /\ ev' = [NoEvent("set_max_particles") EXCEPT
                    !.old_len = Len(particles)]
        /\ UNCHANGED <<search_pos, rate, life, position, gravity, bounds,
                       particle_buf, pending, panicked, others>>

\* set_max_particles(max, device): the pool is resized and particle_buf is
\* replaced by a new buffer holding the record of every particle of the
\* pool; writes queued for the old buffer never reach the new one.
set_max_particles ==
    /\ ~panicked
    /\ \E max \in 0 .. MaxParticles :
        /\ particles' = Resized(particles, max)
        /\ particle_buf' = [i \in 1 .. max |-> to_raw(particles'[i])]
        /\ pending' = [i \in 1 .. max |-> NoWrite]
        /\ cfg_max' = max
        /\ drawn' = <<>>
        /\ ev' = [NoEvent("set_max_particles") EXCEPT
                    !.old_len = Len(particles)]
        /\ UNCHANGED <<search_pos, rate, life, position, gravity, bounds,
                       panicked, others>>

(* ------------------------------- setters ------------------------------- *)
\* set_rate(rate)
set_rate ==
    /\ ~panicked
    /\ \E r \in 0 .. MaxRate :
        /\ rate' = r
        /\ drawn' = <<>>
        /\ ev' = NoEvent("set_rate")
        /\ UNCHANGED <<particles, search_pos, life, position, gravity, bounds,
                       particle_buf, pending, panicked, cfg_max, others>>

\* set_life_spread(life)
set_life_spread ==
    /\ ~panicked
    /\ \E ls \in LifeSpreads :
        /\ bounds' = [bounds EXCEPT !.life = ls]
        /\ drawn' = <<>>
        /\ ev' = NoEvent("set_life_spread")
        /\ UNCHANGED <<particles, search_pos, rate, life, position, gravity,
                       particle_buf, pending, panicked, cfg_max, others>>

\* The effect of a setter on everything but the field it names: nothing.
SetterFrame(op) ==
    /\ ~panicked
    /\ drawn' = <<>>
    /\ ev' = NoEvent(op)
    /\ UNCHANGED <<particles, search_pos, life, gravity, particle_buf,
                   pending, panicked, cfg_max, others>>

\* A set_position that carries the particles of the pool along.
set_position_moving ==
    /\ \E pos \in 0 .. MaxPosition :
        /\ position' = pos
        /\ particles' = [i \in 1 .. Len(particles) |->
                [particles[i] EXCEPT !.pos = @ + (pos - position)]]
    /\ ~panicked
    /\ drawn' = <<>>
    /\ ev' = NoEvent("set_position")
    /\ UNCHANGED <<search_pos, life, gravity, particle_buf, pending,
                   panicked, cfg_max, others, rate, bounds>>

\* set_position(pos)
set_position ==
    /\ \E pos \in 0 .. MaxPosition : position' = pos
    /\ SetterFrame("set_position")
    /\ UNCHANGED <<rate, bounds>>

\* set_mass_spread(mass)
set_mass_spread ==
    /\ \E m \in 1 .. MaxMass : bounds' = [bounds EXCEPT !.mass = Spread(m, 0)]
    /\ SetterFrame("set_mass_spread")
    /\ UNCHANGED <<rate, position>>

\* set_initial_velocity_spread(init_vel)
set_initial_velocity_spread ==
    /\ \E v \in 0 .. MaxInitVel :
        bounds' = [bounds EXCEPT !.init_vel = Spread(v, 0)]
    /\ SetterFrame("set_initial_velocity_spread")
    /\ UNCHANGED <<rate, position>>

\* set_spawn_range(spawn_range)
set_spawn_range ==
    /\ \E v \in 0 .. MaxSpawnVariance :
        bounds' = [bounds EXCEPT !.spawn_range = Spread(0, v)]
    /\ SetterFrame("set_spawn_range")
    /\ UNCHANGED <<rate, position>>

(* ------------------------------ rendering ------------------------------ *)
\* State::render called on its own: draw_particle_system, clear, submit.
render ==
    /\ ~panicked
    /\ RenderBuffer(pending)
    /\ ev' = NoEvent("render")
    /\ UNCHANGED <<sys, panicked, cfg_max, others>>

\* The MainEventsCleared handler of the frame loop: state.update(delta),
\* then get_current_texture; on Ok the frame is rendered, on Err the
\* handler returns ("dropped frame") with the writes of update still queued.
FrameRendered ==
    /\ ~panicked
    /\ \E dur \in 0 .. MaxDuration, smp \in SpawnSamples :
        UpdateStep("frame", dur, smp, TRUE)

FrameDropped ==
    /\ ~panicked
    /\ \E dur \in 0 .. MaxDuration, smp \in SpawnSamples :
        UpdateStep("dropped", dur, smp, FALSE)

MainEventsCleared == FrameRendered \/ FrameDropped

(* --------------------------- random numbers ---------------------------- *)
\* A u64, and a non-negative fixed-point number, are kept as the set of the
\* positions of their 1 bits, so that the 64-bit shifts and xors and the
\* rounding of a conversion to f32 are computed bit for bit.  A real number
\* x >= 0 is the bit set of x * 2^53: every value that arises from
\* `state >> 11` divided by 2^53 is a whole number of these units.
SetMax(S) == CHOOSE x \in S : \A y \in S : y <= x

\* The bits of a natural number below 2^31.
Bits(n) == {i \in 0 .. 30 : (n \div 2^i) % 2 = 1}

Xor(A, B) == (A \ B) \cup (B \ A)

\* `<<` and `>>` on u64: bits shifted past bit 63 or below bit 0 are lost.
Shl(A, k) == {i + k : i \in {j \in A : j + k <= 63}}

Shr(A, k) == {i - k : i \in {j \in A : j >= k}}

\* Multiplication by 2^k without loss.
ShiftUp(A, k) == {i + k : i \in A}

\* A + B and, for A >= B, A - B, by carry and borrow propagation.
RECURSIVE BitAdd(_, _)
BitAdd(A, B) ==
    IF B = {} THEN A ELSE BitAdd(Xor(A, B), ShiftUp(A \cap B, 1))

RECURSIVE BitSub(_, _)
BitSub(A, B) ==
    IF B = {} THEN A ELSE BitSub(Xor(A, B), ShiftUp(B \ A, 1))

BitLess(A, B) == Xor(A, B) # {} /\ SetMax(Xor(A, B)) \in B

\* A times the natural number n < 2^31.
RECURSIVE BitMulBits(_, _)
BitMulBits(A, N) ==
    IF N = {} THEN {}
    ELSE LET k == SetMax(N)
         IN  BitAdd(ShiftUp(A, k), BitMulBits(A, N \ {k}))

\* F64_MANTISSA = 2^53: the unit of the fixed-point numbers.
F64_MANTISSA_BITS == 53

\* The mantissa of an f32 has 24 bits.
F32_MANTISSA_BITS == 24

\* `as f32` on a non-negative value: round to nearest, ties to even, on 24
\* significant bits.
RoundF32(A) ==
    IF A = {} \/ SetMax(A) < F32_MANTISSA_BITS THEN A
    ELSE LET cut == SetMax(A) - (F32_MANTISSA_BITS - 1)
             kept == {i \in A : i >= cut}
             half == (cut - 1) \in A
             sticky == \E i \in A : i < cut - 1
             odd == cut \in A
         IN  IF half /\ (sticky \/ odd)
             THEN BitAdd(kept, {cut})
             ELSE kept

\* A signed fixed-point number: sign and magnitude.
Fix(neg, mag) == [neg |-> neg /\ mag # {}, mag |-> mag]

\* The f32 of a small integer.
FixInt(n) ==
    IF n < 0 THEN Fix(TRUE, ShiftUp(Bits(0 - n), F64_MANTISSA_BITS))
    ELSE Fix(FALSE, ShiftUp(Bits(n), F64_MANTISSA_BITS))

\* x < y and x <= y on signed fixed-point numbers.
FixLess(x, y) ==
    IF x.neg /\ ~y.neg THEN TRUE
    ELSE IF ~x.neg /\ y.neg THEN FALSE
    ELSE IF x.neg THEN BitLess(y.mag, x.mag)
    ELSE BitLess(x.mag, y.mag)

FixLeq(x, y) == x = y \/ FixLess(x, y)

\* The f32 operations x + y and x * n (n a small integer held in an f32):
\* the exact result, rounded to f32.
F32Add(x, y) ==
    IF x.neg = y.neg THEN Fix(x.neg, RoundF32(BitAdd(x.mag, y.mag)))
    ELSE IF BitLess(x.mag, y.mag)
    THEN Fix(y.neg, RoundF32(BitSub(y.mag, x.mag)))
    ELSE Fix(x.neg, RoundF32(BitSub(x.mag, y.mag)))

F32MulInt(x, n) ==
    IF n < 0 THEN Fix(~x.neg, RoundF32(BitMulBits(x.mag, Bits(0 - n))))
    ELSE Fix(x.neg, RoundF32(BitMulBits(x.mag, Bits(n))))

\* The state update of next(): state ^= state << 13; state ^= state >> 7;
\* state ^= state << 17, on u64.
xorshift(S) ==
    LET s1 == Xor(S, Shl(S, 13))
        s2 == Xor(s1, Shr(s1, 7))
    IN  Xor(s2, Shl(s2, 17))

\* next(): ((state >> 11) as f64 / F64_MANTISSA) as f32.  The shift leaves
\* an integer below 2^53, exact as an f64, and the division by 2^53 is
\* exact; the conversion to f32 rounds.
next(S) ==
    LET s == xorshift(S)
    IN  [state |-> s, value |-> Fix(FALSE, RoundF32(Shr(s, 11)))]

\* in_range(a..b): (range.end - range.start) * self.next() + range.start.
in_range(S, a, b) ==
    LET n == next(S)
    IN  [state |-> n.state,
         value |-> F32Add(F32MulInt(n.value, b - a), FixInt(a))]

\* spread(sp): sp.mean + self.in_range(-1.0..1.0) * sp.variance; u is the
\* value in_range returned.
spread(S, sp) ==
    LET r == in_range(S, -1, 1)
    IN  [state |-> r.state, u |-> r.value,
         value |-> F32Add(FixInt(sp.mean), F32MulInt(r.value, sp.variance))]

\* A seed from which the third state has its 25 highest bits set
\* (0xda5310fce49f27f7).
SeedNearOne ==
    {0, 1, 2, 4, 5, 6, 7, 8, 9, 10, 13, 16, 17, 18, 19, 20, 23, 26, 29, 30,
     31, 34, 35, 36, 37, 38, 39, 44, 48, 49, 52, 54, 57, 59, 60, 62, 63}

\* Randf32::new() starts from 555555555; Randf32::seed(seed) from any u64.
Seeds ==
    {Bits(555555555), SeedNearOne} \cup {Bits(n) : n \in 0 .. MaxSeed}

\* The generator after a call: op is the call, value what it returned.
RandAfter(op, r, lo, hi, sp, u) ==
    [op |-> op, state |-> r.state, draws |-> rand.draws + 1,
     value |-> r.value, lo |-> lo, hi |-> hi, sp |-> sp, u |-> u]

\* No particle system is in use: an empty pool that is never updated.
SysIdle ==
    /\ particles = <<>>
    /\ search_pos = 0
    /\ rate = 0
    /\ life = 0
    /\ position = 0
    /\ gravity = -2
    /\ bounds = FixedBounds(Spread(0, 0))
    /\ particle_buf = <<>>
    /\ pending = <<>>
    /\ panicked = FALSE
    /\ cfg_max = 0
    /\ drawn = <<>>
    /\ ev = NoEvent("none")

InitRand ==
    /\ SysIdle
    /\ lights = Idle /\ config = Idle /\ obj = Idle /\ mat = Idle
    /\ layout = Idle /\ gui = Idle
    /\ \E S \in Seeds :
        rand = [op |-> "seed", state |-> S, draws |-> 0,
                value |-> Fix(FALSE, {}), lo |-> 0, hi |-> 0,
                sp |-> Spread(0, 0), u |-> Fix(FALSE, {})]

\* A call of next()
rand_next ==
    /\ rand.draws < MaxDraws
    /\ rand' = RandAfter("next", next(rand.state), 0, 1, Spread(0, 0),
                         Fix(FALSE, {}))
    /\ UNCHANGED <<sysvars, lights, config, obj, mat, layout, gui>>

\* A call of in_range(a..b) with a < b
rand_in_range ==
    /\ rand.draws < MaxDraws
    /\ \E a \in (0 - MaxRangeEnd) .. MaxRangeEnd,
          b \in (0 - MaxRangeEnd) .. MaxRangeEnd :
        /\ a < b
        /\ rand' = RandAfter("in_range", in_range(rand.state, a, b), a, b,
                             Spread(0, 0), Fix(FALSE, {}))
    /\ UNCHANGED <<sysvars, lights, config, obj, mat, layout, gui>>

\* A call of spread(sp)
rand_spread ==
    /\ rand.draws < MaxDraws
    /\ \E m \in 0 .. MaxSpreadMean, v \in 0 .. MaxSpreadVariance :
        LET r == spread(rand.state, Spread(m, v))
        IN  rand' = RandAfter("spread", r, -1, 1, Spread(m, v), r.u)
    /\ UNCHANGED <<sysvars, lights, config, obj, mat, layout, gui>>

NextRand ==
    \/ rand_next
    \/ rand_in_range
    \/ rand_spread

SpecRand == InitRand /\ [][NextRand]_vars

(* ------------------------------- lights -------------------------------- *)
\* Light::size(): size_of a #[repr(C)] record of two [f32; 4].
LightSize == 4 * (4 + 4)

\* No write_buffer was issued.
NoLightWrite == [offset |-> -1, size |-> 0]

\* A bounds test that lets idx = max_lights through.
InvalidLightIndexOffByOne(idx, max_lights) == idx > max_lights

\* The test add_light rejects an index with: `idx >= self.max_lights`.
InvalidLightIndex(idx, max_lights) == idx >= max_lights

\* ParticleSystemRenderer::new: the lights buffer is created from
\* desc.max_lights default lights (light 0 stands for Light::default()).
InitLights ==
    /\ SysIdle
    /\ rand = Idle /\ config = Idle /\ obj = Idle /\ mat = Idle
    /\ layout = Idle /\ gui = Idle
    /\ \E max \in 0 .. MaxLights :
        lights = [op |-> "new", max_lights |-> max,
                  bytes |-> max * LightSize,
                  buf |-> [i \in 1 .. max |-> 0],
                  idx |-> 0, ok |-> TRUE, err |-> <<>>,
                  write |-> NoLightWrite]

\* add_light(queue, position, color, idx): an index the test rejects
\* returns Err(InvalidLightIndex(idx, max_lights)); otherwise the light is
\* written at byte offset idx * Light::size() and Ok(()) returned.  A write
\* that does not lie inside the buffer changes none of its records.
add_light ==
    \E idx \in 0 .. MaxLights + 1, light \in 1 .. MaxLightValue :
        /\ lights' =
            IF InvalidLightIndex(idx, lights.max_lights)
            THEN [lights EXCEPT !.op = "add_light", !.idx = idx,
                                !.ok = FALSE,
                                !.err = <<idx, lights.max_lights>>,
                                !.write = NoLightWrite]
            ELSE [lights EXCEPT !.op = "add_light", !.idx = idx,
                                !.ok = TRUE, !.err = <<>>,
                                !.write = [offset |-> idx * LightSize,
                                           size |-> LightSize],
                                !.buf = IF idx < Len(lights.buf)
                                        THEN [@ EXCEPT ![idx + 1] = light]
                                        ELSE @]
        /\ UNCHANGED <<sysvars, rand, config, obj, mat, layout, gui>>

NextLights == add_light

SpecLights == InitLights /\ [][NextLights]_vars

(* ---------------------------- configuration --------------------------- *)
\* The command line arguments tried: the keywords of Config::new, an
\* unsigned integer, the mesh name it knows, a path that exists (and is no
\* number) and a word that is none of these.
Keywords == {"g", "-max", "-rate", "-mesh", "-texture"}

ArgWords == Keywords \cup {"7", "cube", "tex.png", "x"}

\* arg.parse::<usize>() is Ok
ParsesAsUsize(arg) == arg = "7"

\* The value of the argument that parses.
UsizeOf(arg) == 7

\* PathBuf::from(&arg).exists()
PathExists(arg) == arg = "tex.png"

\* SystemConfig::default()
DefaultSystemConfig ==
    [max |-> 5000, rate |-> 10, mesh |-> "cube", texture |-> "None"]

\* The sequences of at most n arguments.
ArgLists(n) == UNION {[1 .. k -> ArgWords] : k \in 0 .. n}

\* Config::new(args) before the first argument is read: parser is
\* Parse::None, cfg and scfg are the defaults.
InitConfig ==
    /\ SysIdle
    /\ rand = Idle /\ lights = Idle /\ obj = Idle /\ mat = Idle
    /\ layout = Idle /\ gui = Idle
    /\ \E args \in ArgLists(MaxArgs) :
        config = [op |-> "new", args |-> args, at |-> 1, parser |-> "None",
                  systems |-> <<>>, scfg |-> DefaultSystemConfig,
                  result |-> "running", err |-> <<>>]

\* The parsing state after the first match of the loop body, and whether
\* the body goes on to the second match (the value keywords `continue`).
KeywordState(arg, parser) ==
    CASE arg = "g" -> [parser |-> "NewGenerator", goes_on |-> TRUE]
      [] arg = "-max" -> [parser |-> "ParticleMax", goes_on |-> FALSE]
      [] arg = "-rate" -> [parser |-> "ParticleRate", goes_on |-> FALSE]
      [] arg = "-mesh" -> [parser |-> "Mesh", goes_on |-> FALSE]
      [] arg = "-texture" -> [parser |-> "Texture", goes_on |-> FALSE]
      [] OTHER -> [parser |-> parser, goes_on |-> TRUE]

\* The second match of the loop body: what the argument does in the
\* parsing state `parser`.
ValueState(c, arg, parser) ==
    CASE parser = "NewGenerator" ->
            [c EXCEPT !.systems = Append(@, c.scfg),
                      !.scfg = DefaultSystemConfig]
      [] parser = "Texture" ->
            IF PathExists(arg) THEN [c EXCEPT !.scfg.texture = arg]
            ELSE [c EXCEPT !.result = "Err", !.err = <<"NotFound", arg>>]
      [] parser = "ParticleMax" ->
            IF ParsesAsUsize(arg) THEN [c EXCEPT !.scfg.max = UsizeOf(arg)]
            ELSE [c EXCEPT !.result = "Err",
                           !.err = <<"InvalidParticleMax", arg>>]
      [] parser = "ParticleRate" ->
            IF ParsesAsUsize(arg) THEN [c EXCEPT !.scfg.rate = UsizeOf(arg)]
            ELSE [c EXCEPT !.result = "Err",
                           !.err = <<"InvalidParticleRate", arg>>]
      [] parser = "Mesh" ->
            IF arg = "cube" THEN [c EXCEPT !.scfg.mesh = "cube"]
            ELSE [c EXCEPT !.result = "Err",
                           !.err = <<"InvalidParticleMesh", arg>>]
      [] OTHER -> c

\* One iteration of `for arg in args`; an Err returns at once, `at` then
\* stays at the argument that raised it.
config_arg ==
    /\ config.result = "running"
    /\ config.at <= Len(config.args)
    /\ LET arg == config.args[config.at]
           k == KeywordState(arg, config.parser)
           c == [config EXCEPT !.op = "arg", !.parser = k.parser]
           d == IF k.goes_on THEN ValueState(c, arg, k.parser) ELSE c
       IN  config' = IF d.result = "Err" THEN d
                     ELSE [d EXCEPT !.at = config.at + 1]
    /\ UNCHANGED <<sysvars, rand, lights, obj, mat, layout, gui>>

\* After the loop: a Config with no system gets scfg, and Ok(cfg) returns.
config_end ==
    /\ config.result = "running"
    /\ config.at > Len(config.args)
    /\ config' = [config EXCEPT
                    !.op = "end",
                    !.result = "Ok",
                    !.systems = IF @ = <<>> THEN <<config.scfg>> ELSE @]
    /\ UNCHANGED <<sysvars, rand, lights, obj, mat, layout, gui>>

NextConfig ==
    \/ config_arg
    \/ config_end

SpecConfig == InitConfig /\ [][NextConfig]_vars

(* ------------------------------ obj files ------------------------------ *)
\* The tokens of a v / vt / vn line: one that parses as f32 and one that
\* does not.
FloatTokens == {"1.0", "abc"}

ParsesAsF32(tok) == tok = "1.0"

\* The '/'-terminated fields of a face entry: the decimal numbers
\* 0 .. MaxIndex, and a field that does not parse as i32.  What follows the
\* last '/' of an entry is pushed to `num` and cleared unread, so it is left
\* out of the model.
IndexTokens == {[num |-> TRUE, n |-> n] : n \in 0 .. MaxIndex}
                 \cup {[num |-> FALSE, n |-> 0]}

\* The lines tried: v, vt and vn lines of up to MaxCoords tokens, f lines
\* of one entry of 1 .. MaxFields fields, and a line of another kind.
ObjLines ==
    {[kind |-> k, toks |-> t, fields |-> <<>>] :
        k \in {"v", "vt", "vn"},
        t \in UNION {[1 .. n -> FloatTokens] : n \in 0 .. MaxCoords}}
    \cup {[kind |-> "f", toks |-> <<>>, fields |-> f] :
        f \in UNION {[1 .. n -> IndexTokens] : n \in 1 .. MaxFields}}
    \cup {[kind |-> "#", toks |-> <<>>, fields |-> <<>>]}

\* How many floats f32x3 / f32x2 copy out of `floats` for a line: the slice
\* `vec[..n]` panics when the Vec is shorter.
CoordsNeeded(kind) == IF kind = "vt" THEN 2 ELSE 3

\* The list the j-th field of a face entry indexes: Vertex::Position, then
\* TexCoords, Normal, and Position again (Vertex::next).
FieldList(o, j) ==
    CASE j % 3 = 1 -> o.v
      [] j % 3 = 2 -> o.vt
      [] OTHER -> o.vn

\* What a v / vt / vn line does: the first token that does not parse
\* returns ObjParseError; otherwise f32x3 / f32x2 panics on too few floats,
\* or the point is pushed.
PointLine(o, line) ==
    IF \E j \in 1 .. Len(line.toks) : ~ParsesAsF32(line.toks[j])
    THEN [o EXCEPT !.result = "ObjParseError", !.err_line = o.linecount + 1]
    ELSE IF Len(line.toks) < CoordsNeeded(line.kind)
    THEN [o EXCEPT !.result = "panic"]
    ELSE CASE line.kind = "v" -> [o EXCEPT !.v = @ + 1]
           [] line.kind = "vt" -> [o EXCEPT !.vt = @ + 1]
           [] OTHER -> [o EXCEPT !.vn = @ + 1]

\* What the fields j .. of an f line's entry do: a field that does not parse
\* as i32 returns ObjParseError; a number n indexes list[n as usize - 1],
\* which panics for n = 0 (overflow, or index usize::MAX) and for n beyond
\* the list read so far; after the last field the vertex is pushed.
RECURSIVE FaceFields(_, _, _)
FaceFields(o, fields, j) ==
    IF j > Len(fields) THEN [o EXCEPT !.vertices = @ + 1]
    ELSE IF ~fields[j].num
    THEN [o EXCEPT !.result = "ObjParseError", !.err_line = o.linecount + 1]
    ELSE IF fields[j].n < 1 \/ fields[j].n > FieldList(o, j)
    THEN [o EXCEPT !.result = "panic"]
    ELSE FaceFields(o, fields, j + 1)

\* read_obj_file(device, path) before the file is opened; the lists v, vt,
\* vn and vertices are kept by their lengths.
InitObj ==
    /\ SysIdle
    /\ rand = Idle /\ lights = Idle /\ config = Idle /\ mat = Idle
    /\ layout = Idle /\ gui = Idle
    /\ \E opens \in BOOLEAN,
          lines \in UNION {[1 .. n -> ObjLines] : n \in 0 .. MaxLines} :
        obj = [op |-> "call", opens |-> opens, lines |-> lines,
               linecount |-> 0, v |-> 0, vt |-> 0, vn |-> 0,
               vertices |-> 0, result |-> "running", err_line |-> 0]

\* new_input_file(path): Err gives FileOpenError.
obj_open ==
    /\ obj.op = "call"
    /\ obj' = IF obj.opens THEN [obj EXCEPT !.op = "open"]
              ELSE [obj EXCEPT !.op = "open", !.result = "FileOpenError"]
    /\ UNCHANGED <<sysvars, rand, lights, config, mat, layout, gui>>

\* One iteration of the read_line loop.
obj_line ==
    /\ obj.op \in {"open", "line"}
    /\ obj.result = "running"
    /\ obj.linecount < Len(obj.lines)
    /\ LET line == obj.lines[obj.linecount + 1]
           o == [obj EXCEPT !.op = "line"]
           r == CASE line.kind \in {"v", "vt", "vn"} -> PointLine(o, line)
                  [] line.kind = "f" -> FaceFields(o, line.fields, 1)
                  [] OTHER -> o
       IN  obj' = [r EXCEPT !.linecount = o.linecount + 1]
    /\ UNCHANGED <<sysvars, rand, lights, config, mat, layout, gui>>

\* read_line returns 0: the buffers are created and the mesh returned.
obj_end ==
    /\ obj.op \in {"open", "line"}
    /\ obj.result = "running"
    /\ obj.linecount = Len(obj.lines)
    /\ obj' = [obj EXCEPT !.op = "end", !.result = "Ok"]
    /\ UNCHANGED <<sysvars, rand, lights, config, mat, layout, gui>>

NextObj ==
    \/ obj_open
    \/ obj_line
    \/ obj_end

SpecObj == InitObj /\ [][NextObj]_vars

(* ----------------------------- face entries ---------------------------- *)
\* The characters an entry of an f line is made of here: two digits, the
\* separator, and a character that is no part of a number.
FaceChars == {"1", "2", "/", "x"}

\* The entries tried: every string of up to MaxTokenLen of these characters.
FaceEntries == UNION {[1 .. n -> FaceChars] : n \in 0 .. MaxTokenLen}

\* The lists v, vt and vn when the f line is read: MaxIndex points each, the
\* k-th point of a list standing for itself.
PointList(name) == [k \in 1 .. MaxIndex |-> <<name, k>>]

\* Vertex::next
VertexNext(parse) ==
    CASE parse = "Position" -> "TexCoords"
      [] parse = "TexCoords" -> "Normal"
      [] OTHER -> "Position"

\* ParticleVertex::default()
DefaultVertex ==
    [position |-> <<"default", 0>>, tex_coords |-> <<"default", 0>>,
     normal |-> <<"default", 0>>]

\* num.parse::<i32>() on a string of these characters: Ok for a non-empty
\* string of digits, with its decimal value.
RECURSIVE Decimal(_)
Decimal(num) ==
    IF num = <<>> THEN 0
    ELSE 10 * Decimal(SubSeq(num, 1, Len(num) - 1))
            + (IF num[Len(num)] = "1" THEN 1 ELSE 2)

ParsesAsI32(num) ==
    num # <<>> /\ \A k \in 1 .. Len(num) : num[k] \in {"1", "2"}

\* The body of `for c in s.chars()` for the k-th character on, on the state
\* st of the entry: a '/' parses `num` (Err returns ObjParseError), indexes
\* the list of the component selected (out of range panics), stores the
\* point, moves the selector on and clears num; any other character is
\* pushed to num.
RECURSIVE EntryChars(_, _, _)
EntryChars(st, s, k) ==
    IF k > Len(s) \/ st.result # "running" THEN st
    ELSE IF s[k] = "/"
    THEN IF ~ParsesAsI32(st.num)
         THEN [st EXCEPT !.result = "ObjParseError"]
         ELSE LET n == Decimal(st.num)
                  list == CASE st.parse = "Position" -> PointList("v")
                            [] st.parse = "TexCoords" -> PointList("vt")
                            [] OTHER -> PointList("vn")
              IN  IF n > Len(list)
                  THEN [st EXCEPT !.result = "panic"]
                  ELSE EntryChars(
                         [parse |-> VertexNext(st.parse),
                          num |-> <<>>,
                          result |-> "running",
                          vertex |->
                            CASE st.parse = "Position" ->
                                    [st.vertex EXCEPT !.position = list[n]]
                              [] st.parse = "TexCoords" ->
                                    [st.vertex EXCEPT !.tex_coords = list[n]]
                              [] OTHER ->
                                    [st.vertex EXCEPT !.normal = list[n]]],
                         s, k + 1)
    ELSE EntryChars([st EXCEPT !.num = Append(@, s[k])], s, k + 1)

\* One iteration of `while let Some(s) = string.next()` on an f line: the
\* selector starts at Position, the vertex at its default; after the last
\* character the vertex is pushed and num is cleared, unread.
FaceEntry(s) ==
    LET st == EntryChars([parse |-> "Position", num |-> <<>>,
                          result |-> "running", vertex |-> DefaultVertex],
                         s, 1)
    IN  IF st.result = "running" THEN [st EXCEPT !.result = "pushed"]
        ELSE st

InitFace ==
    /\ SysIdle
    /\ rand = Idle /\ lights = Idle /\ config = Idle /\ mat = Idle
    /\ layout = Idle /\ gui = Idle
    /\ \E s \in FaceEntries :
        obj = [op |-> "entry", s |-> s, result |-> "running",
               vertex |-> DefaultVertex]

\* The f line's loop reads the entry.
face_entry ==
    /\ obj.op = "entry"
    /\ LET st == FaceEntry(obj.s)
       IN  obj' = [op |-> "read", s |-> obj.s, result |-> st.result,
                   vertex |-> st.vertex]
    /\ UNCHANGED <<sysvars, rand, lights, config, mat, layout, gui>>

NextFace == face_entry

SpecFace == InitFace /\ [][NextFace]_vars

(* --------------------------------- gui --------------------------------- *)
\* std::cmp::max
Max(a, b) == IF a >= b THEN a ELSE b

\* The Delete button: systems.remove(focused) panics when focused is not
\* an index of the list; then the focused index is brought back under
\* the new length.
Delete(g) ==
    IF g.focused >= g.len THEN [g EXCEPT !.panicked = TRUE]
    ELSE LET len == g.len - 1
         IN  [g EXCEPT !.len = len,
                       !.focused = IF g.focused >= len THEN Max(len - 1, 0)
                                   ELSE g.focused]

\* State::new: the systems of the configuration, the first one focused.
\* The list is kept by its length.
InitGui ==
    /\ SysIdle
    /\ rand = Idle /\ lights = Idle /\ config = Idle /\ obj = Idle
    /\ mat = Idle /\ layout = Idle
    /\ \E n \in 0 .. MaxSystems :
        gui = [op |-> "new", len |-> n, focused |-> 0, panicked |-> FALSE,
               pushed |-> FALSE, deleted |-> FALSE, clicked |-> -1]

\* State::render_ui for one frame that is not dropped: the New button
\* pushes a system, the Delete button removes the focused one, the list box
\* sets the focused index to the item clicked, and the properties of the
\* focused system are read when the list is not empty (an index out of
\* range panics).  `new`, `delete` and `click` are what the user did in the
\* frame, click = -1 standing for no click in the list.
render_ui ==
    /\ ~gui.panicked
    /\ \E new \in BOOLEAN, delete \in BOOLEAN, click \in -1 .. MaxSystems - 1 :
        LET g1 == IF new THEN [gui EXCEPT !.len = @ + 1] ELSE gui
            g2 == IF delete THEN Delete(g1) ELSE g1
            g3 == IF click >= 0 THEN [g2 EXCEPT !.focused = click] ELSE g2
            g4 == IF g3.len > 0 /\ g3.focused >= g3.len
                  THEN [g3 EXCEPT !.panicked = TRUE] ELSE g3
        IN  /\ g1.len <= MaxSystems
            /\ g2.panicked \/ click < g2.len
            /\ gui' = [(IF g2.panicked THEN g2 ELSE g4) EXCEPT
                          !.op = "render_ui", !.pushed = new,
                          !.deleted = delete, !.clicked = click]
    /\ UNCHANGED <<sysvars, rand, lights, config, obj, mat, layout>>

NextGui == render_ui

SpecGui == InitGui /\ [][NextGui]_vars

(* ------------------------------ matrices ------------------------------- *)
\* Vec4::new(x, y, z, w)
Vec4(x, y, z, w) == [x |-> x, y |-> y, z |-> z, w |-> w]

\* Mat4x4::from_cols(c0, c1, c2, c3)
from_cols(c0, c1, c2, c3) == [c0 |-> c0, c1 |-> c1, c2 |-> c2, c3 |-> c3]

\* impl Mul<f32> for Vec4
Vec4MulF32(v, other) ==
    Vec4(v.x * other, v.y * other, v.z * other, v.w * other)

\* A product that takes the columns of the matrix for its rows.
Vec4MulMatTransposed(v, other) ==
    Vec4(v.x * other.c0.x + v.y * other.c0.y + v.z * other.c0.z
            + v.w * other.c0.w,
         v.x * other.c1.x + v.y * other.c1.y + v.z * other.c1.z
            + v.w * other.c1.w,
         v.x * other.c2.x + v.y * other.c2.y + v.z * other.c2.z
            + v.w * other.c2.w,
         v.x * other.c3.x + v.y * other.c3.y + v.z * other.c3.z
            + v.w * other.c3.w)

\* impl Mul<Mat4x4> for Vec4: the columns of the matrix scaled by the
\* components of the vector, then added component by component.
Vec4MulMat(v, other) ==
    LET c0 == Vec4MulF32(other.c0, v.x)
        c1 == Vec4MulF32(other.c1, v.y)
        c2 == Vec4MulF32(other.c2, v.z)
        c3 == Vec4MulF32(other.c3, v.w)
    IN  Vec4(c0.x + c1.x + c2.x + c3.x,
             c0.y + c1.y + c2.y + c3.y,
             c0.z + c1.z + c2.z + c3.z,
             c0.w + c1.w + c2.w + c3.w)

\* impl Mul for Mat4x4: self * other has the columns other.c_j * self.
Mat4x4Mul(self, other) ==
    from_cols(Vec4MulMat(other.c0, self), Vec4MulMat(other.c1, self),
              Vec4MulMat(other.c2, self), Vec4MulMat(other.c3, self))

\* The matrices of the tests mat_multiply and multiply_vec_by_mat.
TestMat1 ==
    from_cols(Vec4(1, 5, 9, 4), Vec4(2, 6, 1, 5), Vec4(3, 7, 2, 6),
              Vec4(4, 8, 3, 7))

TestMat2 ==
    from_cols(Vec4(10, 14, 18, 12), Vec4(11, 15, 19, 13),
              Vec4(12, 16, 10, 14), Vec4(13, 17, 11, 15))

\* The matrix with the entry e in column c, row r, and 0 elsewhere.
OneEntry(e, c, r) ==
    LET col(j) == Vec4(IF j = c /\ r = 0 THEN e ELSE 0,
                       IF j = c /\ r = 1 THEN e ELSE 0,
                       IF j = c /\ r = 2 THEN e ELSE 0,
                       IF j = c /\ r = 3 THEN e ELSE 0)
    IN  from_cols(col(0), col(1), col(2), col(3))

\* The matrices multiplied: those of the tests and the one-entry matrices.
Mats ==
    {TestMat1, TestMat2}
        \cup {OneEntry(e, c, r) : e \in 1 .. MaxEntry, c \in 0 .. 3,
                                  r \in 0 .. 3}

InitMat ==
    /\ SysIdle
    /\ rand = Idle /\ lights = Idle /\ config = Idle /\ obj = Idle
    /\ layout = Idle /\ gui = Idle
    /\ \E a \in Mats, b \in Mats :
        mat = [op |-> "new", a |-> a, b |-> b, prod |-> a]

\* a * b
mat_multiply ==
    /\ mat.op = "new"
    /\ mat' = [mat EXCEPT !.op = "mul", !.prod = Mat4x4Mul(mat.a, mat.b)]
    /\ UNCHANGED <<sysvars, rand, lights, config, obj, layout, gui>>

NextMat == mat_multiply

SpecMat == InitMat /\ [][NextMat]_vars

(* --------------------------- instance layout --------------------------- *)
\* mem::size_of::<[f32; n]>()
SizeOfF32Array(n) == 4 * n

\* The byte size of a vertex format.
FormatSize(format) ==
    CASE format = "Float32x4" -> SizeOfF32Array(4)
      [] format = "Float32x3" -> SizeOfF32Array(3)

\* The attributes of ParticleRaw::layout(), in the order of the source.
Attributes ==
    <<[offset |-> 0, shader_location |-> 5, format |-> "Float32x4"],
      [offset |-> SizeOfF32Array(4), shader_location |-> 6,
       format |-> "Float32x4"],
      [offset |-> SizeOfF32Array(8), shader_location |-> 7,
       format |-> "Float32x4"],
      [offset |-> SizeOfF32Array(12), shader_location |-> 8,
       format |-> "Float32x4"],
      [offset |-> SizeOfF32Array(16), shader_location |-> 9,
       format |-> "Float32x3"],
      [offset |-> SizeOfF32Array(19), shader_location |-> 10,
       format |-> "Float32x3"],
      [offset |-> SizeOfF32Array(22), shader_location |-> 11,
       format |-> "Float32x3"],
      [offset |-> SizeOfF32Array(26), shader_location |-> 12,
       format |-> "Float32x4"]>>

\* array_stride: mem::size_of::<ParticleRaw>()
array_stride == InstanceSize

\* The columns of the fields of ParticleRaw, in declaration order (repr(C),
\* every column an array of f32, so no padding): the byte offset and the
\* byte size of each of the eight columns within one record.
Columns ==
    LET model == [c \in 1 .. 4 |->
                    [offset |-> SizeOfF32Array(4) * (c - 1),
                     size |-> SizeOfF32Array(4)]]
        normal == [c \in 1 .. 3 |->
                    [offset |-> SizeOfF32Array(16)
                                    + SizeOfF32Array(3) * (c - 1),
                     size |-> SizeOfF32Array(3)]]
        color == <<[offset |-> SizeOfF32Array(16) + SizeOfF32Array(9),
                    size |-> SizeOfF32Array(4)]>>
    IN  model \o normal \o color

InitLayout ==
    /\ SysIdle
    /\ rand = Idle /\ lights = Idle /\ config = Idle /\ obj = Idle
    /\ mat = Idle /\ gui = Idle
    /\ layout = [op |-> "new", instance |-> 0, attr |-> 1, first |-> 0,
                 last |-> 0]

\* The fetch of one attribute of one instance from the instance buffer: the
\* bytes from instance * array_stride + offset, as many as the format has.
vertex_fetch ==
    /\ \E n \in 0 .. MaxInstance, a \in 1 .. Len(Attributes) :
        LET first == n * array_stride + Attributes[a].offset
        IN  layout' = [op |-> "fetch", instance |-> n, attr |-> a,
                       first |-> first,
                       last |-> first + FormatSize(Attributes[a].format)]
    /\ UNCHANGED <<sysvars, rand, lights, config, obj, mat, gui>>

NextLayout == vertex_fetch

SpecLayout == InitLayout /\ [][NextLayout]_vars

(* ---------------------------- specifications --------------------------- *)
\* The operations of ParticleSystem, called in any order by a client.
Next ==
    \/ update
    \/ set_max_particles
    \/ set_rate

Spec == Init /\ [][Next]_vars

\* The frame loop of the demo: nothing but MainEventsCleared handlers.
NextFrame ==
    \/ FrameRendered
    \/ FrameDropped

SpecFrame == Init /\ [][NextFrame]_vars

\* A client that calls update for ever, each time with at least 1 ms.
NextLive == update_ms

\* The client never stops calling update: the call is possible as long as
\* the thread has not panicked.
SpecLive == Init /\ [][NextLive]_vars /\ WF_vars(update_ms)

\* A client whose updates are of any duration, some under 1 ms.
NextShort ==
    \/ update
    \/ update_short

SpecShort == Init /\ [][NextShort]_vars

SetterOps ==
    {"set_position", "set_rate", "set_life_spread", "set_mass_spread",
     "set_initial_velocity_spread", "set_spawn_range"}

\* A client that constructs a system, updates it once, makes one setter
\* call and updates the system once more.  The last operation recorded in ev
\* tells where the client is in that script.
InitSetters == Init /\ Len(particles) >= 1

ClientMayUpdate == ev.op = "new" \/ ev.op \in SetterOps

ClientMaySet == ev.op = "update" /\ ev.fresh

NextSetters ==
    \/ ClientMayUpdate /\ update
    \/ ClientMaySet /\ set_position
    \/ ClientMaySet /\ set_rate
    \/ ClientMaySet /\ set_life_spread
    \/ ClientMaySet /\ set_mass_spread
    \/ ClientMaySet /\ set_initial_velocity_spread
    \/ ClientMaySet /\ set_spawn_range

SpecSetters == InitSetters /\ [][NextSetters]_vars

(* ------------------------------ properties ----------------------------- *)
Range(f) == {f[k] : k \in DOMAIN f}

UpdateOps == {"update", "frame", "dropped"}

\* C1: a single update of a freshly constructed system with capacity >= rate,
\* system life not expired and every sampled life greater than delta leaves
\* exactly `rate` particles with life > 0.  (Stated for a system life > 0
\* and a delta of at least 1 ms, as in the scenario the claim gives.)
C1_FreshUpdateLeavesRateAlive ==
    (/\ ev.op = "update" /\ ev.fresh
     /\ Len(particles) >= rate
     /\ ev.life0 > 0
     /\ ev.delta >= 1
     /\ ev.above)
    => LiveCount = rate

\* A record that shows a particle: not the all-zero record, and not the
\* record of the default particle either, which is parked at y = -100.
Visible(rec) == rec # ZeroInstance /\ rec # to_raw(DefaultParticle)

\* C2: at every draw issued by the frame loop, over all particle_count
\* slots, no slot whose particle has life <= 0 holds a visible instance
\* record.
C2_DeadSlotsNotVisible ==
    ev.op = "frame" =>
        \A i \in 1 .. Len(particles) :
            Dead(particles[i]) => ~Visible(drawn[i])

\* C3: the number of particles with life > 0 never exceeds the configured
\* maximum, whatever updates, set_rate and set_max_particles calls were made.
C3_LiveWithinMax == LiveCount <= cfg_max

C3_Witness ==
    /\ ev.op = "set_max_particles"
    /\ Len(particles) < ev.old_len
    /\ cfg_max >= 1
    /\ LiveCount = cfg_max

\* C4: in one update made while the system's life has not expired, at most
\* `rate` slots go from Dead to Alive.
C4_SpawnRateBound ==
    (ev.op \in UpdateOps /\ ev.life0 >= 0) => Cardinality(ev.born) <= rate

C4_Witness ==
    /\ ev.op = "update"
    /\ ev.life0 >= 0
    /\ rate >= 2
    /\ Cardinality(ev.born) = rate

\* C5: right after set_max_particles grows the pool, every newly added index
\* is selectable by the spawn step of the next update.
C5_GrownSlotsSelectable ==
    (ev.op = "set_max_particles" /\ Len(particles) > ev.old_len)
    => \A i \in ev.old_len .. Len(particles) - 1 : IsUnused(particles[i + 1])

\* C6: after set_max_particles shrinks the pool to new_max >= 1 slots, the
\* pool has exactly new_max slots and the cursor is below new_max.
C6_CursorInRangeAfterShrink ==
    (/\ ev.op = "set_max_particles"
     /\ Len(particles) < ev.old_len
     /\ Len(particles) >= 1)
    => (Len(particles) = cfg_max /\ search_pos < Len(particles))

\* C7: a slot goes Dead -> Alive only when the spawn step of update chooses
\* it, Alive -> Dead only in update, and a spawn never re-initialises a slot
\* that is Alive.
C7_ParticleStateMachine ==
    /\ ev.born \subseteq Range(ev.idxs)
    /\ (ev.died # {} => ev.op \in UpdateOps)
    /\ ~ev.hitAlive

\* C8: an update made once the system's life has expired spawns nothing and
\* makes no slot go Dead -> Alive, and an expired system stays expired.
C8_NoSpawnOnceExpired ==
    /\ []((ev.op \in UpdateOps /\ ev.life0 < 0)
            => (ev.idxs = <<>> /\ ev.born = {}))
    /\ [][life < 0 => life' < 0]_vars

C8_Witness ==
    /\ ev.op = "update"
    /\ ev.life0 < 0
    /\ rate > 0
    /\ \E i \in 1 .. Len(particles) : IsUnused(particles[i])

FirstDeadInScanOrder(ps, sp) ==
    LET upper == {i \in sp .. Len(ps) - 1 : Dead(ps[i + 1])}
        lower == {i \in 0 .. sp - 1 : Dead(ps[i + 1])}
    IN  IF upper # {} THEN SetMin(upper) ELSE SetMin(lower)

\* C10: find_unused_particle returns the first index in scan order whose
\* particle has life <= 0, and moves the cursor there.
C10_FindReturnsFirstDead ==
    (/\ ~panicked
     /\ search_pos < Len(particles)
     /\ \E i \in 1 .. Len(particles) : Dead(particles[i]))
    => LET f == find_unused_particle(particles, search_pos)
           d == FirstDeadInScanOrder(particles, search_pos)
       IN  f.idx = d /\ f.search_pos = d

\* C11: after new and after every set_max_particles, particle_buf_size()
\* stands for particle_count() * 116 bytes, particle_count() being the
\* capacity last configured, and the instance buffer holds exactly that
\* many bytes.  (For a capacity of 0 the Option returned is None, which
\* clear_buffer takes as "to the end of the buffer", 0 bytes here.)
C11_BufferSizeMatchesCapacity ==
    /\ particle_count = cfg_max
    /\ BufferBytes(particle_buf) = particle_count * 116
    /\ SizeBytes(particle_buf_size, BufferBytes(particle_buf))
            = particle_count * 116
    /\ particle_count > 0 =>
            particle_buf_size = [some |-> TRUE, val |-> particle_count * 116]

C11_Witness ==
    /\ ev.op = "set_max_particles"
    /\ ev.old_len = 1
    /\ particle_count = 3
    /\ BufferBytes(particle_buf) = 348

\* What one update makes of a particle p that it does not respawn, written
\* out: the life falls by d, and a particle still alive gets the half step
\* of gravity g on its velocity and moves by the new velocity.
AgedBy(p, d, g) ==
    IF p.life - d > 0
    THEN [life |-> p.life - d,
          pos |-> p.pos + (p.vel + (g * p.mass * d) \div 2) * d,
          vel |-> p.vel + (g * p.mass * d) \div 2,
          mass |-> p.mass]
    ELSE [p EXCEPT !.life = p.life - d]

\* C12: a setter changes the configuration field it names and nothing else
\* (pool, cursor, system life, instance buffer and queued writes stay as
\* they are), and in the update that follows every particle not respawned
\* evolves from its own state alone, while the respawned ones are drawn from
\* the configuration as the setter left it.
C12_SettersOnlyConfigure ==
    [][/\ ev'.op \in SetterOps =>
            /\ particles' = particles
            /\ search_pos' = search_pos
            /\ life' = life
            /\ gravity' = gravity
            /\ particle_buf' = particle_buf
            /\ pending' = pending
            /\ ev'.op # "set_position" => position' = position
            /\ ev'.op # "set_rate" => rate' = rate
            /\ ev'.op # "set_life_spread" => bounds'.life = bounds.life
            /\ ev'.op # "set_mass_spread" => bounds'.mass = bounds.mass
            /\ ev'.op # "set_initial_velocity_spread" =>
                    bounds'.init_vel = bounds.init_vel
            /\ ev'.op # "set_spawn_range" =>
                    bounds'.spawn_range = bounds.spawn_range
       /\ (ev'.op = "update" /\ ev.op \in SetterOps) =>
            /\ ev'.life0 >= 0 => Len(ev'.idxs) = rate
            /\ \A i \in 1 .. Len(particles') :
                IF (i - 1) \in Range(ev'.idxs)
                THEN \E l \in SpreadValues(bounds.life),
                        o \in SpreadValues(bounds.spawn_range),
                        v \in SpreadValues(bounds.init_vel),
                        m \in SpreadValues(bounds.mass) :
                        particles'[i] =
                            AgedBy([life |-> l, pos |-> o + position,
                                    vel |-> v, mass |-> m],
                                   ev'.delta, gravity)
                ELSE particles'[i] = AgedBy(particles[i], ev'.delta, gravity)
      ]_vars

\* After update, set_position(1), update: a particle spawned by the second
\* update sits at the new position, next to a live one of the first update
\* that the second did not respawn.
C12_Witness ==
    /\ ev.op = "update" /\ ~ev.fresh
    /\ position = 1
    /\ ev.delta = 0
    /\ \E i \in Range(ev.idxs) : particles[i + 1].pos = 1
    /\ \E j \in 0 .. Len(particles) - 1 :
            /\ j \notin Range(ev.idxs)
            /\ Alive(particles[j + 1])
            /\ particles[j + 1].pos # 1

\* C15: next() returns v with 0 <= v < 1, and in_range(a..b) with a < b
\* returns a value in [a, b).
C15_NextInUnitInterval ==
    /\ rand.op = "next" =>
            /\ ~rand.value.neg
            /\ FixLess(rand.value, FixInt(1))
    /\ rand.op = "in_range" =>
            /\ FixLeq(FixInt(rand.lo), rand.value)
            /\ FixLess(rand.value, FixInt(rand.hi))

\* C14: spread(mean, variance) returns mean + variance * u with u in
\* [-1, 1), a value in [mean - variance, mean + variance].
C14_SpreadWithinVariance ==
    rand.op = "spread" =>
        /\ FixLeq(FixInt(-1), rand.u)
        /\ FixLess(rand.u, FixInt(1))
        /\ FixLeq(FixInt(rand.sp.mean - rand.sp.variance), rand.value)
        /\ FixLeq(rand.value, FixInt(rand.sp.mean + rand.sp.variance))

\* C16: add_light(idx) with idx >= max_lights returns
\* InvalidLightIndex(idx, max_lights) and writes nothing to the lights
\* buffer; with idx < max_lights it returns Ok and writes exactly the 32
\* bytes [idx * 32, idx * 32 + 32), inside the buffer of max_lights records.
C16_AddLightChecksIndex ==
    [][lights'.op = "add_light" =>
        IF lights'.idx >= lights.max_lights
        THEN /\ ~lights'.ok
             /\ lights'.err = <<lights'.idx, lights.max_lights>>
             /\ lights'.write = NoLightWrite
             /\ lights'.buf = lights.buf
        ELSE /\ lights'.ok
             /\ lights'.write = [offset |-> lights'.idx * 32, size |-> 32]
             /\ lights'.idx * 32 + 32 <= lights.bytes
             /\ lights.bytes = lights.max_lights * 32
             /\ \A i \in 1 .. Len(lights.buf) :
                    i # lights'.idx + 1 => lights'.buf[i] = lights.buf[i]
      ]_vars

\* Both outcomes on a renderer of three lights: the last light has been
\* written, and a later call with the index max_lights is rejected.
C16_Witness ==
    /\ lights.op = "add_light"
    /\ lights.max_lights = 3
    /\ lights.buf[3] # 0
    /\ ~lights.ok
    /\ lights.idx = 3

\* Whether `arg` is an invalid value for the value keyword `kw`, and the
\* error the claim names for it.
InvalidFor(kw, arg) ==
    CASE kw = "-max" -> ~ParsesAsUsize(arg)
      [] kw = "-rate" -> ~ParsesAsUsize(arg)
      [] kw = "-mesh" -> arg # "cube"
      [] kw = "-texture" -> ~PathExists(arg)
      [] OTHER -> FALSE

ErrorFor(kw) ==
    CASE kw = "-max" -> "InvalidParticleMax"
      [] kw = "-rate" -> "InvalidParticleRate"
      [] kw = "-mesh" -> "InvalidParticleMesh"
      [] OTHER -> "NotFound"

\* C17: Config::new returns a typed error and no Config whenever an
\* argument is invalid: when the argument following -max (-rate, -mesh,
\* -texture) is not an unsigned integer (an unsigned integer, a known mesh
\* name, an existing path), parsing ends in an error, and unless an earlier
\* argument raised one it is the error named for that keyword, carrying the
\* argument.
C17_InvalidArgumentIsAnError ==
    /\ config.op = "end" =>
            \A k \in 1 .. Len(config.args) - 1 :
                ~InvalidFor(config.args[k], config.args[k + 1])
    /\ (/\ config.result = "Err"
        /\ config.at >= 2
        /\ InvalidFor(config.args[config.at - 1], config.args[config.at]))
       => config.err = <<ErrorFor(config.args[config.at - 1]),
                         config.args[config.at]>>

\* The number of lines of kind `kind` among the first k - 1 lines.
LinesBefore(lines, k, kind) ==
    Cardinality({j \in 1 .. k - 1 : lines[j].kind = kind})

\* Line k is malformed: a v / vt / vn line with a token that is no number or
\* with too few coordinates, or an f line with an index that is no number
\* or lies outside the list read so far.
Malformed(lines, k) ==
    LET line == lines[k]
    IN  \/ /\ line.kind \in {"v", "vt", "vn"}
           /\ \/ \E j \in 1 .. Len(line.toks) : ~ParsesAsF32(line.toks[j])
              \/ Len(line.toks) < (IF line.kind = "vt" THEN 2 ELSE 3)
        \/ /\ line.kind = "f"
           /\ \E j \in 1 .. Len(line.fields) :
                \/ ~line.fields[j].num
                \/ line.fields[j].n < 1
                \/ line.fields[j].n >
                     LinesBefore(lines, k,
                         IF j = 1 THEN "v" ELSE IF j = 2 THEN "vt" ELSE "vn")

\* C18: read_obj_file never panics: a file that cannot be opened yields
\* FileOpenError, and a malformed v / vt / vn / f line yields ObjParseError
\* carrying its 1-based line number, whatever the malformation.
C18_ObjErrorsAreTyped ==
    /\ obj.result # "panic"
    /\ (obj.op # "call" /\ ~obj.opens) => obj.result = "FileOpenError"
    /\ obj.result = "ObjParseError" =>
            /\ obj.err_line = obj.linecount
            /\ Malformed(obj.lines, obj.err_line)
    /\ obj.result = "Ok" =>
            \A k \in 1 .. Len(obj.lines) : ~Malformed(obj.lines, k)

\* The entry of a matrix in column c, row r.
Entry(m, c, r) ==
    LET col == CASE c = 0 -> m.c0 [] c = 1 -> m.c1 [] c = 2 -> m.c2
                 [] OTHER -> m.c3
    IN  CASE r = 0 -> col.x [] r = 1 -> col.y [] r = 2 -> col.z
          [] OTHER -> col.w

\* C19: a * b is the standard product of column-major 4x4 matrices: the
\* entry in column j, row i of the result is the sum over k of a's entry
\* (column k, row i) times b's entry (column j, row k).
C19_MatMulIsStandardProduct ==
    mat.op = "mul" =>
        \A j \in 0 .. 3, i \in 0 .. 3 :
            Entry(mat.prod, j, i) =
                Entry(mat.a, 0, i) * Entry(mat.b, j, 0)
                + Entry(mat.a, 1, i) * Entry(mat.b, j, 1)
                + Entry(mat.a, 2, i) * Entry(mat.b, j, 2)
                + Entry(mat.a, 3, i) * Entry(mat.b, j, 3)

\* The test mat_multiply: mat1 * mat2 is the matrix the test expects.
C19_Witness ==
    /\ mat.op = "mul"
    /\ mat.a = TestMat1
    /\ mat.b = TestMat2
    /\ mat.prod = from_cols(Vec4(140, 356, 176, 302),
                            Vec4(150, 382, 191, 324),
                            Vec4(130, 338, 186, 286),
                            Vec4(140, 364, 201, 308))

\* No slot of the pool passes the test of find_unused_particle.
NoSlotFree == \A i \in 1 .. Len(particles) : ~IsUnused(particles[i])

\* C20: an update that spawns while no slot is free signals no error; every
\* spawn of the call lands on slot 0, live or not, the cursor is left at 0,
\* and every other slot is only aged.
C20_SilentFallbackToSlotZero ==
    [][(/\ ~panicked
        /\ Spawning(life)
        /\ rate >= 1
        /\ NoSlotFree
        /\ ev'.op \in UpdateOps \cup {"panic"})
       => /\ ev'.op \in UpdateOps
          /\ ev'.idxs = [k \in 1 .. rate |-> 0]
          /\ search_pos' = 0
          /\ (Alive(particles[1]) => ev'.hitAlive)
          /\ \A i \in 2 .. Len(particles) :
                particles'[i] = Age(particles[i], ev'.delta, gravity)]_vars

\* The handlers of the frame loop, as recorded in ev.
FrameOps == {"frame", "dropped"}

\* No write to the instance buffer is queued and not yet submitted.
NothingQueued == \A i \in 1 .. Len(pending) : pending[i] = NoWrite

\* C21: update and draw strictly alternate in the frame loop: when the
\* update of a frame begins, the draw of the frame before it has been
\* submitted, so that no write of an earlier frame is still queued; and the
\* draw of a rendered frame reads every record its update wrote.
C21_UpdateAndDrawAlternate ==
    [][ev'.op \in FrameOps
        => /\ ev.op # "dropped"
           /\ NothingQueued
           /\ (ev'.op = "frame"
                => \A i \in ev'.written :
                      drawn'[i + 1] = to_raw(particles'[i + 1]))]_vars

\* C22: the write of update for slot i covers the bytes [i*116, (i+1)*116)
\* and lies inside the buffer, the writes of two slots never overlap, and a
\* live particle stays in its slot: whatever the operation, a slot that held
\* a live particle and was not spawned into holds that same particle
\* afterwards (aged, if the operation is an update), and the record written
\* for a slot is the record of the particle in that slot.
C22_WritesAtFixedSlotOffsets ==
    [][/\ ev'.op = "update" =>
            /\ \A i \in ev'.written :
                /\ WriteOffset(i) = i * 116
                /\ WriteOffset(i) + WriteLen = (i + 1) * 116
                /\ WriteOffset(i) + WriteLen <= BufferBytes(particle_buf')
                /\ pending'[i + 1] = to_raw(particles'[i + 1])
            /\ \A i, j \in ev'.written :
                i < j => WriteOffset(i) + WriteLen <= WriteOffset(j)
       /\ ev'.op # "panic" =>
            \A i \in LiveSet(particles) \ Range(ev'.idxs) :
                i < Len(particles') =>
                    particles'[i + 1] =
                        IF ev'.op = "update"
                        THEN Age(particles[i + 1], ev'.delta, gravity)
                        ELSE particles[i + 1]]_vars

\* An update that spawns nothing writes slots 0 and 1: the particles spawned
\* by an earlier update are still in their slots.
C22_Witness ==
    /\ ev.op = "update"
    /\ ev.idxs = <<>>
    /\ {0, 1} \subseteq ev.written
    /\ pending[2] = to_raw(particles[2])
    /\ WriteOffset(1) = 116

\* C23: the steps of one update run in this order: the spawn loop, run on
\* the test of the system's life as it is before the call; the decrement of
\* the system's life; then for every slot the decrement of the particle's
\* life and, only if it is then > 0, the integration followed by the write
\* of the integrated record.  So a particle spawned in the call is aged by
\* delta in that same call, and integrated and written if still alive.
C23_UpdateStepOrder ==
    [][ev'.op = "update" =>
        /\ (life >= 0 => Len(ev'.idxs) = rate)
        /\ (life < 0 => ev'.idxs = <<>>)
        /\ life' = life - ev'.delta
        /\ \A i \in Range(ev'.idxs) :
            \E smp \in NewParticles(bounds, position) :
                particles'[i + 1] = AgedBy(smp, ev'.delta, gravity)
        /\ \A i \in (0 .. Len(particles) - 1) \ Range(ev'.idxs) :
            particles'[i + 1] = AgedBy(particles[i + 1], ev'.delta, gravity)
        /\ ev'.written = {i \in 0 .. Len(particles') - 1 :
                            particles'[i + 1].life > 0}
        /\ \A i \in ev'.written :
            pending'[i + 1] = [w |-> 1, pos |-> particles'[i + 1].pos]]_vars

\* An update of 1 ms on a system whose life was 0 spawns two particles: one
\* is aged, integrated (its velocity is no longer the initial one) and
\* written in that call, the other is aged to life 0 and is neither.
C23_Witness ==
    /\ ev.op = "update"
    /\ ev.life0 = 0
    /\ ev.delta = 1
    /\ \E i \in Range(ev.idxs) :
        /\ i \in ev.written
        /\ particles[i + 1].life > 0
        /\ particles[i + 1].vel # 1
        /\ pending[i + 1].pos = particles[i + 1].pos
    /\ \E j \in Range(ev.idxs) :
        /\ j \notin ev.written
        /\ particles[j + 1].life = 0
        /\ particles[j + 1].vel = 1

\* C24: when every update is called with at least 1 ms, the life of the
\* system eventually expires, and from some point on every slot is Dead and
\* stays Dead.
C24_EventuallyAllDead ==
    /\ <>(life < 0)
    /\ <>[](LiveCount = 0)

\* C25: whatever the sequence of update and set_max_particles calls, the
\* capacity and the rate, no update indexes the pool at or beyond its
\* capacity (a panic) and the cursor clamp never computes 0 - 1 (a panic
\* with overflow checks, a cursor of usize::MAX without).
C25_UpdateStaysInBounds ==
    /\ ~panicked
    /\ search_pos # UsizeMax

\* The slots the scan of find_unused_particle can select.
FreeSlots == {i \in 0 .. Len(particles) - 1 : IsUnused(particles[i + 1])}

\* C26: in one update whose sampled lives are all >= 0, every spawn made
\* while a free slot exists takes a slot that was free and that no earlier
\* spawn of the call took; each such spawn uses up one free slot, so these
\* are the first spawns of the call, as many as there were free slots.  With
\* at least `rate` free slots the update completes and its `rate` spawns
\* occupy `rate` distinct slots.
C26_SpawnsTakeDistinctFreeSlots ==
    [][(/\ ~panicked
        /\ ev'.op \in {"update", "panic"}
        /\ life >= 0
        /\ rate >= 1
        /\ \A l \in SpreadValues(bounds.life) : l >= 0)
       => /\ Cardinality(FreeSlots) >= rate
                => /\ ev'.op = "update"
                   /\ Len(ev'.idxs) = rate
                   /\ Cardinality(Range(ev'.idxs)) = rate
          /\ ev'.op = "update"
                => \A k \in 1 .. Min(Cardinality(FreeSlots), rate) :
                    /\ ev'.idxs[k] \in FreeSlots
                    /\ \A j \in 1 .. k - 1 : ev'.idxs[j] # ev'.idxs[k]]_vars

\* An update has spawned into two distinct slots, one of them with a
\* sampled life of 0 (its life is now -delta).
C26_Witness ==
    /\ ev.op = "update"
    /\ Len(ev.idxs) = 2
    /\ ev.idxs[1] # ev.idxs[2]
    /\ \A l \in SpreadValues(bounds.life) : l >= 0
    /\ \E k \in 1 .. 2 : particles[ev.idxs[k] + 1].life = -ev.delta

\* C27: an update with a duration under 1 ms runs with delta = 0: the life
\* of the system stays as it is, every particle it does not respawn keeps
\* its life, position and velocity, and while the system's life has not
\* expired it still makes `rate` spawns, whose particles are left exactly as
\* sampled.
C27_SubMillisecondUpdate ==
    [][ev'.op = "short" =>
        /\ ev'.delta = 0
        /\ life' = life
        /\ (life >= 0 => Len(ev'.idxs) = rate)
        /\ \A i \in (0 .. Len(particles) - 1) \ Range(ev'.idxs) :
            particles'[i + 1] = particles[i + 1]
        /\ \A i \in Range(ev'.idxs) :
            particles'[i + 1] \in NewParticles(bounds, position)]_vars

\* A short update has spawned next to a live particle that an earlier
\* update of 1 ms or more had integrated.
C27_Witness ==
    /\ ev.op = "short"
    /\ Len(ev.idxs) >= 1
    /\ \E i \in (0 .. Len(particles) - 1) \ Range(ev.idxs) :
        /\ Alive(particles[i + 1])
        /\ particles[i + 1].vel # 1

\* C28: every attribute of the instance layout lies inside one record of
\* 116 bytes, and starts where its column starts in the record: the model
\* columns at 0, 16, 32, 48, the normal columns at 64, 76, 88 and the color
\* at 100.
C28_AttributesMatchRecord ==
    layout.op = "fetch" =>
        LET base == layout.instance * 116
        IN  /\ layout.first - base
                    = <<0, 16, 32, 48, 64, 76, 88, 100>>[layout.attr]
            /\ layout.first - base = Columns[layout.attr].offset
            /\ layout.last - layout.first = Columns[layout.attr].size
            /\ layout.last <= base + 116

\* C29: an entry p/t/n of an f line gives one vertex whose position is the
\* p-th v point, whose tex_coords is the t-th vt point and whose normal is
\* the n-th vn point.
C29_FaceEntryPicksPoints ==
    \A p, t, n \in 1 .. MaxIndex :
        LET digit(k) == IF k = 1 THEN "1" ELSE "2"
        IN  (obj.op = "read"
             /\ obj.s = <<digit(p), "/", digit(t), "/", digit(n)>>)
            => /\ obj.result = "pushed"
               /\ obj.vertex = [position |-> <<"v", p>>,
                                tex_coords |-> <<"vt", t>>,
                                normal |-> <<"vn", n>>]

\* C30: after any sequence of New, Delete and list selections the focused
\* index is an index of the list of systems whenever the list is not empty,
\* and a Delete never removes an index that does not exist: render_ui does
\* not fail, on an empty list either.
C30_FocusedIndexValid ==
    /\ ~gui.panicked
    /\ gui.len > 0 => (0 <= gui.focused /\ gui.focused < gui.len)

====
